---------------------------- MODULE Spec2Model ----------------------------
(***************************************************************************)
(* A model of ts-analyzer: the command-line driver (index.js, cli.js), the *)
(* file analyzer (analyzers/file-analyzer.js), the duplicate grouper       *)
(* (analyzers/duplicates.js) and the scanner.                              *)
(*                                                                         *)
(* A text is a sequence of one-character strings.  The regular expressions *)
(* of the source are written as syntax trees and run by a backtracking     *)
(* matcher that returns the ends of a match in the order in which the      *)
(* JavaScript engine tries them (greedy before shorter, lazy before        *)
(* longer, left alternative before right).                                 *)
(***************************************************************************)
EXTENDS Integers, Sequences, FiniteSets, TLC

VARIABLES
    pc,               \* position of the run: which step of main() is next
    argv,             \* process.argv.slice(2)
    config,           \* the record parseArgs returned
    files,            \* the sorted list scanTypeScriptFiles returned
    disk,             \* path -> bytes of the file, or Unreadable
    i,                \* loop index of main()'s analysis loop (0-based)
    results,          \* main()'s results array
    warnings,         \* log.warn calls so far: <<path, reason>>
    duplicateGroups,  \* main()'s duplicateGroups
    summary,          \* the record buildSummary returned, Null before
    reports,          \* number of fs.writeFileSync calls of the report
    reads,            \* path -> number of fs.readFileSync calls
    exitCode,         \* Null while running, <<n>> after process.exit(n)
    raw,              \* text under analysis (pure-function specifications)
    rawB,             \* a second text, for relational properties
    stripped,         \* stripCommentsAndStrings(raw), Null before
    score,            \* calculateComplexity(stripped), Null before
    scoreB            \* the same for rawB

vars == <<pc, argv, config, files, disk, i, results, warnings, duplicateGroups,
          summary, reports, reads, exitCode, raw, rawB, stripped, score, scoreB>>

\* JavaScript's null / an absent value, and a present value v.
Null == <<>>
Some(v) == <<v>>

(***************************************************************************)
(* Characters and character classes                                        *)
(***************************************************************************)
\* \w of a JavaScript regular expression: [A-Za-z0-9_]
WordChars ==
    {"a","b","c","d","e","f","g","h","i","j","k","l","m","n","o","p","q","r",
     "s","t","u","v","w","x","y","z",
     "A","B","C","D","E","F","G","H","I","J","K","L","M","N","O","P","Q","R",
     "S","T","U","V","W","X","Y","Z",
     "0","1","2","3","4","5","6","7","8","9","_"}

\* \s restricted to the white space the model's texts hold
SpaceChars == {" ", "\t", "\n", "\r"}

\* the backtick character (U+0060), which a string of this notation cannot
\* hold: the one character of the model written as a longer string
BT == "BACKTICK"

\* the line terminators: what . does not match and $ (flag m) stops before
LineTerminators == {"\n", "\r"}

(***************************************************************************)
(* Regular-expression syntax trees                                         *)
(***************************************************************************)
Lit(cs)     == [t |-> "lit", cs |-> cs]       \* the characters cs in a row
In(S)       == [t |-> "in", S |-> S]          \* [...]  one character of S
NotIn(S)    == [t |-> "notin", S |-> S]       \* [^...] one character not in S
Dot         == NotIn(LineTerminators)         \* .      (no flag s)
AnyChar     == NotIn({})                      \* [\s\S]
WB          == [t |-> "wb"]                   \* \b
EOL         == [t |-> "eol"]                  \* $      (flag m)
Cat(rs)     == [t |-> "cat", rs |-> rs]       \* r1 r2 ...
Alt(rs)     == [t |-> "alt", rs |-> rs]       \* r1 | r2 | ...
Star(r)     == [t |-> "star", r |-> r]        \* r*
LazyStar(r) == [t |-> "lazy", r |-> r]        \* r*?
Plus(r)     == [t |-> "plus", r |-> r]        \* r+
Opt(r)      == [t |-> "opt", r |-> r]         \* r?

IsWordAt(s, p) == p >= 1 /\ p <= Len(s) /\ s[p] \in WordChars

(***************************************************************************)
(* Ends(r, s, p): the offsets (0..Len(s)) at which a match of r that       *)
(* starts at offset p of s can end, in the engine's order of preference.   *)
(***************************************************************************)
RECURSIVE Ends(_, _, _), EndsEach(_, _, _), EndsCat(_, _, _, _),
          EndsAlt(_, _, _, _), EndsMore(_, _, _, _)

\* the ends of r from each start of ps, in order
EndsEach(r, s, ps) ==
    IF ps = <<>> THEN <<>>
    ELSE Ends(r, s, Head(ps)) \o EndsEach(r, s, Tail(ps))

\* rs[k], rs[k+1], ... in a row, from each start of ps
EndsCat(rs, k, s, ps) ==
    IF k > Len(rs) \/ ps = <<>> THEN ps
    ELSE EndsCat(rs, k + 1, s, EndsEach(rs[k], s, ps))

\* rs[k] | rs[k+1] | ... from p
EndsAlt(rs, k, s, p) ==
    IF k > Len(rs) THEN <<>>
    ELSE Ends(rs[k], s, p) \o EndsAlt(rs, k + 1, s, p)

\* one more iteration of the starred r from p: its non-empty matches, each
\* followed by the rest of the star
EndsMore(star, s, p, es) ==
    IF es = <<>> THEN <<>>
    ELSE (IF Head(es) > p THEN Ends(star, s, Head(es)) ELSE <<>>)
         \o EndsMore(star, s, p, Tail(es))

Ends(r, s, p) ==
    CASE r.t = "lit" ->
           IF p + Len(r.cs) <= Len(s) /\ SubSeq(s, p + 1, p + Len(r.cs)) = r.cs
           THEN <<p + Len(r.cs)>> ELSE <<>>
      [] r.t = "in" ->
           IF p < Len(s) /\ s[p + 1] \in r.S THEN <<p + 1>> ELSE <<>>
      [] r.t = "notin" ->
           IF p < Len(s) /\ s[p + 1] \notin r.S THEN <<p + 1>> ELSE <<>>
      [] r.t = "wb" ->
           IF IsWordAt(s, p) # IsWordAt(s, p + 1) THEN <<p>> ELSE <<>>
      [] r.t = "eol" ->
           IF p = Len(s) \/ s[p + 1] \in LineTerminators THEN <<p>> ELSE <<>>
      [] r.t = "cat"  -> EndsCat(r.rs, 1, s, <<p>>)
      [] r.t = "alt"  -> EndsAlt(r.rs, 1, s, p)
      [] r.t = "star" -> EndsMore(r, s, p, Ends(r.r, s, p)) \o <<p>>
      [] r.t = "lazy" -> <<p>> \o EndsMore(r, s, p, Ends(r.r, s, p))
      [] r.t = "plus" -> EndsEach(Star(r.r), s, Ends(r.r, s, p))
      [] r.t = "opt"  -> Ends(r.r, s, p) \o <<p>>

(***************************************************************************)
(* Global matching (flag g): the matches of r in s from left to right,     *)
(* none overlapping the one before, as <<start offset, end offset>>.       *)
(***************************************************************************)
RECURSIVE MatchesFrom(_, _, _)
MatchesFrom(r, s, p) ==
    IF p > Len(s) THEN <<>>
    ELSE LET es == Ends(r, s, p) IN
         IF es = <<>> THEN MatchesFrom(r, s, p + 1)
         ELSE <<<<p, Head(es)>>>>
              \o MatchesFrom(r, s, IF Head(es) > p THEN Head(es) ELSE p + 1)

\* String.prototype.match with a global pattern: the matches (<<>> for null)
MatchAll(r, s) == MatchesFrom(r, s, 0)

\* String.prototype.replace with a global pattern and a constant replacement
RECURSIVE ReplaceFrom(_, _, _, _)
ReplaceFrom(s, ms, p, by) ==
    IF ms = <<>> THEN SubSeq(s, p + 1, Len(s))
    ELSE SubSeq(s, p + 1, Head(ms)[1]) \o by
         \o ReplaceFrom(s, Tail(ms), Head(ms)[2], by)

ReplaceAll(r, s, by) == ReplaceFrom(s, MatchAll(r, s), 0, by)

(***************************************************************************)
(* file-analyzer.js: the decision-point patterns                           *)
(***************************************************************************)
Word  == In(WordChars)

\* /\bif\s*\(/g
RE_if      == Cat(<<WB, Lit(<<"i","f">>), Star(In(SpaceChars)), Lit(<<"(">>)>>)
\* /\belse\s+if\s*\(/g
RE_elseif  == Cat(<<WB, Lit(<<"e","l","s","e">>), Plus(In(SpaceChars)),
                   Lit(<<"i","f">>), Star(In(SpaceChars)), Lit(<<"(">>)>>)
\* /\bfor\s*\(/g
RE_for     == Cat(<<WB, Lit(<<"f","o","r">>), Star(In(SpaceChars)), Lit(<<"(">>)>>)
\* /\bfor\s+(?:const|let|var)\s+\w+\s+(?:of|in)\b/g
RE_forof   == Cat(<<WB, Lit(<<"f","o","r">>), Plus(In(SpaceChars)),
                   Alt(<<Lit(<<"c","o","n","s","t">>), Lit(<<"l","e","t">>),
                         Lit(<<"v","a","r">>)>>),
                   Plus(In(SpaceChars)), Plus(Word), Plus(In(SpaceChars)),
                   Alt(<<Lit(<<"o","f">>), Lit(<<"i","n">>)>>), WB>>)
\* /\bwhile\s*\(/g
RE_while   == Cat(<<WB, Lit(<<"w","h","i","l","e">>), Star(In(SpaceChars)),
                   Lit(<<"(">>)>>)
\* /\bdo\s*\{/g
RE_do      == Cat(<<WB, Lit(<<"d","o">>), Star(In(SpaceChars)), Lit(<<"{">>)>>)
\* /\bcase\s+/g
RE_case    == Cat(<<WB, Lit(<<"c","a","s","e">>), Plus(In(SpaceChars))>>)
\* /\bcatch\s*\(/g
RE_catch   == Cat(<<WB, Lit(<<"c","a","t","c","h">>), Star(In(SpaceChars)),
                   Lit(<<"(">>)>>)
\* /\?\?/g
RE_nullish == Lit(<<"?","?">>)
\* /\?\./g
RE_optchain == Lit(<<"?",".">>)
\* /&&/g
RE_and     == Lit(<<"&","&">>)
\* /\|\|/g
RE_or      == Lit(<<"|","|">>)
\* /\?[^?.]/g
RE_ternary == Cat(<<Lit(<<"?">>), NotIn({"?", "."})>>)

COMPLEXITY_TOKENS ==
    <<RE_if, RE_elseif, RE_for, RE_forof, RE_while, RE_do, RE_case, RE_catch,
      RE_nullish, RE_optchain, RE_and, RE_or, RE_ternary>>

(***************************************************************************)
(* file-analyzer.js: stripCommentsAndStrings                               *)
(***************************************************************************)
\* the template-literal pattern: backtick, [^backtick]*, backtick (flags g, s)
RE_template  == Cat(<<Lit(<<BT>>), Star(NotIn({BT})), Lit(<<BT>>)>>)
\* the block-comment pattern: slash star, [\s\S] lazily, star slash (flag g)
RE_block     == Cat(<<Lit(<<"/","*">>), LazyStar(AnyChar), Lit(<<"*","/">>)>>)
\* the line-comment pattern: slash slash, .*, $ (flags g, m)
RE_line      == Cat(<<Lit(<<"/","/">>), Star(Dot), EOL>>)
\* the single-quoted string pattern: quote, [^quote]*, quote (flag g)
RE_squote    == Cat(<<Lit(<<"'">>), Star(NotIn({"'"})), Lit(<<"'">>)>>)
\* the double-quoted string pattern: the same with the double quote
RE_dquote    == Cat(<<Lit(<<"\"">>), Star(NotIn({"\""})), Lit(<<"\"">>)>>)

\* the replacement text: two double quotes
Placeholder == <<"\"", "\"">>

stripCommentsAndStrings(code) ==
    LET a == ReplaceAll(RE_template, code, Placeholder)
        b == ReplaceAll(RE_block, a, <<>>)
        c == ReplaceAll(RE_line, b, <<>>)
        d == ReplaceAll(RE_squote, c, Placeholder)
    IN  ReplaceAll(RE_dquote, d, Placeholder)

(***************************************************************************)
(* file-analyzer.js: calculateComplexity                                   *)
(***************************************************************************)
RECURSIVE CountTokens(_, _, _)
\* the loop over COMPLEXITY_TOKENS from pattern k on
CountTokens(tokens, k, text) ==
    IF k > Len(tokens) THEN 0
    ELSE Len(MatchAll(tokens[k], text)) + CountTokens(tokens, k + 1, text)

\* a scorer without the baseline
calculateComplexity_nobase(text) == CountTokens(COMPLEXITY_TOKENS, 1, text)

calculateComplexity(text) == 1 + CountTokens(COMPLEXITY_TOKENS, 1, text)

(***************************************************************************)
(* file-analyzer.js: extractFunctions                                      *)
(***************************************************************************)
\* /\bfunction\s+(\w+)/g up to the capture
RE_functionHead == Cat(<<WB, Lit(<<"f","u","n","c","t","i","o","n">>),
                        Plus(In(SpaceChars))>>)
RE_function     == Cat(<<RE_functionHead, Plus(Word)>>)
\* /\bclass\s+(\w+)/g up to the capture
RE_classHead    == Cat(<<WB, Lit(<<"c","l","a","s","s">>), Plus(In(SpaceChars))>>)
RE_class        == Cat(<<RE_classHead, Plus(Word)>>)
\* /\b(?:const|let|var)\s+(\w+)\s*=\s*(?:async\s+)?(?:\([^)]*\)|[a-zA-Z_$]\w*)\s*=>/g
RE_arrowHead    == Cat(<<WB, Alt(<<Lit(<<"c","o","n","s","t">>), Lit(<<"l","e","t">>),
                                   Lit(<<"v","a","r">>)>>),
                        Plus(In(SpaceChars))>>)
RE_arrow        == Cat(<<RE_arrowHead, Plus(Word), Star(In(SpaceChars)), Lit(<<"=">>),
                        Star(In(SpaceChars)),
                        Opt(Cat(<<Lit(<<"a","s","y","n","c">>), Plus(In(SpaceChars))>>)),
                        Alt(<<Cat(<<Lit(<<"(">>), Star(NotIn({")"})), Lit(<<")">>)>>),
                              Cat(<<In((WordChars \ {"0","1","2","3","4","5","6","7","8","9"})
                                       \cup {"$"}),
                                    Star(Word)>>)>>),
                        Star(In(SpaceChars)), Lit(<<"=",">">>)>>)

\* match[1] of a match m of a pattern head (\w+) ...: the longest run of word
\* characters after the head (the pattern's \w+ is followed by a character
\* that is no word character, so the engine never shortens it)
Capture1(head, s, m) ==
    LET from == Head(Ends(head, s, m[1]))
    IN  SubSeq(s, from + 1, Head(Ends(Plus(Word), s, from)))

RECURSIVE AddCaptures(_, _, _, _)
\* found.add(match[1]) for each match of ms, in order: found is the Set as
\* the list of its elements in insertion order
AddCaptures(found, head, s, ms) ==
    IF ms = <<>> THEN found
    ELSE LET name == Capture1(head, s, Head(ms))
             next == IF \E k \in 1..Len(found) : found[k] = name
                     THEN found ELSE Append(found, name)
         IN  AddCaptures(next, head, s, Tail(ms))

extractFunctions(text) ==
    LET a == AddCaptures(<<>>, RE_functionHead, text, MatchAll(RE_function, text))
        b == AddCaptures(a, RE_arrowHead, text, MatchAll(RE_arrow, text))
    IN  AddCaptures(b, RE_classHead, text, MatchAll(RE_class, text))

(***************************************************************************)
(* Bytes, decoding and the content hash                                    *)
(***************************************************************************)
\* U+FFFD, which the decoder puts for a byte that is no UTF-8
Replacement == "U+FFFD"

\* the characters of the ASCII bytes: tab, line feed, carriage return and the
\* printable characters
CharOfByte(b) ==
    CASE b = 9 -> "\t" [] b = 10 -> "\n" [] b = 13 -> "\r" [] b = 32 -> " "
      [] b = 33 -> "!" [] b = 34 -> "\"" [] b = 35 -> "#" [] b = 36 -> "$"
      [] b = 37 -> "%" [] b = 38 -> "&" [] b = 39 -> "'" [] b = 40 -> "("
      [] b = 41 -> ")" [] b = 42 -> "*" [] b = 43 -> "+" [] b = 44 -> ","
      [] b = 45 -> "-" [] b = 46 -> "." [] b = 47 -> "/" [] b = 48 -> "0"
      [] b = 49 -> "1" [] b = 50 -> "2" [] b = 51 -> "3" [] b = 52 -> "4"
      [] b = 53 -> "5" [] b = 54 -> "6" [] b = 55 -> "7" [] b = 56 -> "8"
      [] b = 57 -> "9" [] b = 58 -> ":" [] b = 59 -> ";" [] b = 60 -> "<"
      [] b = 61 -> "=" [] b = 62 -> ">" [] b = 63 -> "?" [] b = 64 -> "@"
      [] b = 65 -> "A" [] b = 66 -> "B" [] b = 67 -> "C" [] b = 68 -> "D"
      [] b = 69 -> "E" [] b = 70 -> "F" [] b = 71 -> "G" [] b = 72 -> "H"
      [] b = 73 -> "I" [] b = 74 -> "J" [] b = 75 -> "K" [] b = 76 -> "L"
      [] b = 77 -> "M" [] b = 78 -> "N" [] b = 79 -> "O" [] b = 80 -> "P"
      [] b = 81 -> "Q" [] b = 82 -> "R" [] b = 83 -> "S" [] b = 84 -> "T"
      [] b = 85 -> "U" [] b = 86 -> "V" [] b = 87 -> "W" [] b = 88 -> "X"
      [] b = 89 -> "Y" [] b = 90 -> "Z" [] b = 91 -> "[" [] b = 92 -> "\\"
      [] b = 93 -> "]" [] b = 94 -> "^" [] b = 95 -> "_" [] b = 96 -> BT
      [] b = 97 -> "a" [] b = 98 -> "b" [] b = 99 -> "c" [] b = 100 -> "d"
      [] b = 101 -> "e" [] b = 102 -> "f" [] b = 103 -> "g" [] b = 104 -> "h"
      [] b = 105 -> "i" [] b = 106 -> "j" [] b = 107 -> "k" [] b = 108 -> "l"
      [] b = 109 -> "m" [] b = 110 -> "n" [] b = 111 -> "o" [] b = 112 -> "p"
      [] b = 113 -> "q" [] b = 114 -> "r" [] b = 115 -> "s" [] b = 116 -> "t"
      [] b = 117 -> "u" [] b = 118 -> "v" [] b = 119 -> "w" [] b = 120 -> "x"
      [] b = 121 -> "y" [] b = 122 -> "z" [] b = 123 -> "{" [] b = 124 -> "|"
      [] b = 125 -> "}" [] b = 126 -> "~"

AsciiBytes == {9, 10, 13} \cup (32..126)

\* the two-byte characters of the model: lead byte 0xC3 and a continuation
TwoByteChar(b2) == IF b2 = 128 THEN "U+00C0" ELSE "U+00E9"
TwoByteConts == {128, 169}

RECURSIVE Utf8Decode(_)
\* fs.readFileSync(path, 'utf-8') after the read: a byte sequence that is no
\* UTF-8 does not throw, each offending byte becomes U+FFFD
Utf8Decode(bytes) ==
    IF bytes = <<>> THEN <<>>
    ELSE LET b == Head(bytes) IN
         IF b < 128 THEN <<CharOfByte(b)>> \o Utf8Decode(Tail(bytes))
         ELSE IF b = 195 /\ Len(bytes) >= 2 /\ bytes[2] \in TwoByteConts
         THEN <<TwoByteChar(bytes[2])>> \o Utf8Decode(Tail(Tail(bytes)))
         ELSE <<Replacement>> \o Utf8Decode(Tail(bytes))

ByteOfChar(c) == CHOOSE b \in AsciiBytes : CharOfByte(b) = c

RECURSIVE Utf8Encode(_)
\* hash.update(content) of a string: its UTF-8 bytes
Utf8Encode(chars) ==
    IF chars = <<>> THEN <<>>
    ELSE LET c == Head(chars) IN
         (IF c = Replacement THEN <<239, 191, 189>>
          ELSE IF c = "U+00C0" THEN <<195, 128>>
          ELSE IF c = "U+00E9" THEN <<195, 169>>
          ELSE <<ByteOfChar(c)>>) \o Utf8Encode(Tail(chars))

\* crypto.createHash('sha256') ... digest('hex'): a digest is modelled by the
\* bytes it was computed from (no two byte sequences of the model collide)
Sha256Hex(bytes) == bytes

(***************************************************************************)
(* file-analyzer.js: extractDependencies                                   *)
(***************************************************************************)
Quotes == {"'", "\""}

\* {[^}]*} | \*\s+as\s+\w+ | \w+ : one binding of an import clause
RE_binding ==
    Alt(<<Cat(<<Lit(<<"{">>), Star(NotIn({"}"})), Lit(<<"}">>)>>),
          Cat(<<Lit(<<"*">>), Plus(In(SpaceChars)), Lit(<<"a","s">>),
                Plus(In(SpaceChars)), Plus(Word)>>),
          Plus(Word)>>)

\* IMPORT_REGEX: import\s+ (?: (?:type\s+)? binding (?:\s*,\s* binding)* \s+from\s+ )?
\* quote ([^quotes]+) quote, flag g
IMPORT_REGEX ==
    Cat(<<Lit(<<"i","m","p","o","r","t">>), Plus(In(SpaceChars)),
          Opt(Cat(<<Opt(Cat(<<Lit(<<"t","y","p","e">>), Plus(In(SpaceChars))>>)),
                    RE_binding,
                    Star(Cat(<<Star(In(SpaceChars)), Lit(<<",">>), Star(In(SpaceChars)),
                               RE_binding>>)),
                    Plus(In(SpaceChars)), Lit(<<"f","r","o","m">>),
                    Plus(In(SpaceChars))>>)),
          In(Quotes), Plus(NotIn(Quotes)), In(Quotes)>>)

\* match[1] of a match m of IMPORT_REGEX: the characters between the closing
\* quote, which ends the match, and the quote before it
Specifier(s, m) ==
    LET open == CHOOSE k \in (m[1] + 1)..(m[2] - 1) :
                  s[k] \in Quotes /\ \A j \in (k + 1)..(m[2] - 1) : s[j] \notin Quotes
    IN  SubSeq(s, open + 1, m[2] - 1)

\* an exclusion that ignores case
EXCLUDED_nocase ==
    { <<"r","e","a","c","t">>, <<"R","e","a","c","t">>,
      <<"r","e","a","c","t","-","d","o","m">>,
      <<"r","e","a","c","t","-","r","e","d","u","x">>,
      <<"r","e","a","c","t","-","r","o","u","t","e","r">>,
      <<"r","e","a","c","t","-","r","o","u","t","e","r","-","d","o","m">> }

\* the packages extractDependencies leaves out
EXCLUDED ==
    { <<"r","e","a","c","t">>,
      <<"r","e","a","c","t","-","d","o","m">>,
      <<"r","e","a","c","t","-","r","e","d","u","x">>,
      <<"r","e","a","c","t","-","r","o","u","t","e","r">>,
      <<"r","e","a","c","t","-","r","o","u","t","e","r","-","d","o","m">> }

RECURSIVE AddSpecifiers(_, _, _)
\* the loop over the matches: deps is the Set as the list of its elements in
\* insertion order
AddSpecifiers(deps, s, ms) ==
    IF ms = <<>> THEN deps
    ELSE LET specifier == Specifier(s, Head(ms))
             next == IF specifier \in EXCLUDED
                        \/ \E k \in 1..Len(deps) : deps[k] = specifier
                     THEN deps ELSE Append(deps, specifier)
         IN  AddSpecifiers(next, s, Tail(ms))

\* the UTF-16 code unit of a character of the model
CodeUnit(c) ==
    IF c = Replacement THEN 65533
    ELSE IF c = "U+00C0" THEN 192
    ELSE IF c = "U+00E9" THEN 233
    ELSE CHOOSE b \in AsciiBytes : CharOfByte(b) = c

RECURSIVE StringLess(_, _)
\* a < b for two strings: the order of Array.prototype.sort without a
\* comparator (by code units)
StringLess(a, b) ==
    IF b = <<>> THEN FALSE
    ELSE IF a = <<>> THEN TRUE
    ELSE IF Head(a) = Head(b) THEN StringLess(Tail(a), Tail(b))
    ELSE CodeUnit(Head(a)) < CodeUnit(Head(b))

\* the elements in insertion order, without the sort
SortStrings_unsorted(xs) == xs

RECURSIVE SortStrings(_)
\* [...deps].sort() for a list of distinct strings
SortStrings(xs) ==
    IF xs = <<>> THEN <<>>
    ELSE LET m == CHOOSE k \in 1..Len(xs) :
                    \A j \in 1..Len(xs) : j = k \/ StringLess(xs[k], xs[j])
         IN  <<xs[m]>> \o SortStrings(SubSeq(xs, 1, m - 1) \o SubSeq(xs, m + 1, Len(xs)))

extractDependencies(content) ==
    SortStrings(AddSpecifiers(<<>>, content, MatchAll(IMPORT_REGEX, content)))

(***************************************************************************)
(* file-analyzer.js: analyzeFile                                           *)
(***************************************************************************)
RECURSIVE Split(_, _)
\* content.split(sep) for a one-character separator
Split(s, sep) ==
    IF \A k \in 1..Len(s) : s[k] # sep THEN <<s>>
    ELSE LET k == CHOOSE k \in 1..Len(s) : s[k] = sep /\ \A j \in 1..(k-1) : s[j] # sep
         IN  <<SubSeq(s, 1, k - 1)>> \o Split(SubSeq(s, k + 1, Len(s)), sep)

RECURSIVE Trim(_)
\* String.prototype.trim
Trim(s) ==
    IF s = <<>> THEN s
    ELSE IF Head(s) \in SpaceChars THEN Trim(Tail(s))
    ELSE IF s[Len(s)] \in SpaceChars THEN Trim(SubSeq(s, 1, Len(s) - 1))
    ELSE s

\* String.prototype.startsWith
StartsWith(s, prefix) ==
    Len(s) >= Len(prefix) /\ SubSeq(s, 1, Len(prefix)) = prefix

\* the filter of analyzeFile's codeLines
IsCodeLine(line) ==
    LET trimmed == Trim(line)
    IN  /\ Len(trimmed) > 0
        /\ ~StartsWith(trimmed, <<"/","/">>)
        /\ ~StartsWith(trimmed, <<"*">>)

\* an analysis that computes the complexity whatever the toggle says
analyzeContent_untoggled(filePath, content, opts) ==
    LET strippedText == stripCommentsAndStrings(content)
        lines == Split(content, "\n")
        found == IF opts.functions THEN extractFunctions(strippedText) ELSE <<>>
    IN  [ filePath      |-> filePath,
          totalLines    |-> Len(lines),
          codeLines     |-> Len(SelectSeq(lines, IsCodeLine)),
          lines         |-> Len(lines),
          contentHash   |-> Sha256Hex(Utf8Encode(content)),
          functionCount |-> Len(found),
          functionNames |-> found,
          dependencies  |-> extractDependencies(content),
          complexity    |-> calculateComplexity(strippedText) ]

\* the part of analyzeFile after the read: content is the decoded text
\* (fileName, the base name of the path, is left out: a path is a rank)
analyzeContent(filePath, content, opts) ==
    LET strippedText == stripCommentsAndStrings(content)
        lines == Split(content, "\n")
        found == IF opts.functions THEN extractFunctions(strippedText) ELSE <<>>
    IN  [ filePath      |-> filePath,
          totalLines    |-> Len(lines),
          codeLines     |-> Len(SelectSeq(lines, IsCodeLine)),
          lines         |-> Len(lines),
          contentHash   |-> Sha256Hex(Utf8Encode(content)),
          functionCount |-> Len(found),
          functionNames |-> found,
          dependencies  |-> extractDependencies(content),
          complexity    |-> IF opts.complexity THEN calculateComplexity(strippedText)
                            ELSE 0 ]

analyzeFile(d, filePath, opts) == analyzeContent(filePath, Utf8Decode(d[filePath]), opts)

(***************************************************************************)
(* duplicates.js: findDuplicates                                           *)
(***************************************************************************)
RECURSIVE GroupByHash(_, _)
\* the first loop: hashMap after the results rs have been added to it; a Map
\* is the list of its entries <<key, value>> in insertion order
GroupByHash(hashMap, rs) ==
    IF rs = <<>> THEN hashMap
    ELSE LET r == Head(rs)
             withKey == IF \E k \in 1..Len(hashMap) : hashMap[k][1] = r.contentHash
                        THEN hashMap
                        ELSE Append(hashMap, <<r.contentHash, <<>>>>)
             pushed == [k \in 1..Len(withKey) |->
                          IF withKey[k][1] = r.contentHash
                          THEN <<withKey[k][1], Append(withKey[k][2], r.filePath)>>
                          ELSE withKey[k]]
         IN  GroupByHash(pushed, Tail(rs))

\* a grouper that keeps every group, also those of one file
IsDuplicateEntry_any(entry) == Len(entry[2]) > 0

\* the second loop's test: only groups with actual duplicates are kept
IsDuplicateEntry(entry) == Len(entry[2]) > 1

\* a second loop that puts each group in front of the earlier ones
findDuplicates_unshift(rs) ==
    LET kept == SelectSeq(GroupByHash(<<>>, rs), IsDuplicateEntry)
    IN  [k \in 1..Len(kept) |-> [hash  |-> kept[Len(kept) + 1 - k][1],
                                 files |-> kept[Len(kept) + 1 - k][2]]]

findDuplicates(rs) ==
    LET kept == SelectSeq(GroupByHash(<<>>, rs), IsDuplicateEntry)
    IN  [k \in 1..Len(kept) |-> [hash |-> kept[k][1], files |-> kept[k][2]]]

(***************************************************************************)
(* index.js: buildSummary                                                  *)
(***************************************************************************)
LowMax    == 500
MediumMax == 1500
HighMax   == 3000

\* a reduce whose callback drops the accumulator: the value of the last result
SumOf_last(rs, field) == IF rs = <<>> THEN 0 ELSE rs[Len(rs)][field]

RECURSIVE SumOf(_, _)
\* results.reduce((sum, r) => sum + r[field], 0)
SumOf(rs, field) ==
    IF rs = <<>> THEN 0 ELSE SumOf(SubSeq(rs, 1, Len(rs) - 1), field) + rs[Len(rs)][field]

\* the chain with the thresholds exclusive
LevelOf_strict(total) ==
    IF total < LowMax THEN "Low"
    ELSE IF total < MediumMax THEN "Medium"
    ELSE IF total < HighMax THEN "High"
    ELSE "Very High"

\* the if / else-if chain over totalComplexity
LevelOf(total) ==
    IF total <= LowMax THEN "Low"
    ELSE IF total <= MediumMax THEN "Medium"
    ELSE IF total <= HighMax THEN "High"
    ELSE "Very High"

\* a total that is 0, not null, when its analysis is disabled
OptionalTotal_zero(enabled, rs, field) == Some(IF enabled THEN SumOf(rs, field) ELSE 0)

\* enabled ? results.reduce(...) : null
OptionalTotal(enabled, rs, field) == IF enabled THEN Some(SumOf(rs, field)) ELSE Null

buildSummary(rs, cfg) ==
    LET totalComplexity == OptionalTotal(cfg.complexity, rs, "complexity")
    IN  [ totalFiles      |-> Len(rs),
          totalLines      |-> SumOf(rs, "lines"),
          totalFunctions  |-> OptionalTotal(cfg.functions, rs, "functionCount"),
          totalComplexity |-> totalComplexity,
          complexityLevel |-> IF totalComplexity # Null
                              THEN Some(LevelOf(totalComplexity[1])) ELSE Null ]

(***************************************************************************)
(* cli.js: parseArgs                                                       *)
(***************************************************************************)
\* the tokens of a command line of the model: flags, and project directories
FlagTokens == {"-d", "--duplicates", "-c", "--complexity", "-f", "--functions",
               "-a", "--all", "-h", "--help", "-v", "--verbose"}
IsPositional(tok) == tok \notin FlagTokens

\* minimist's value of a boolean option: true when one of its names is given
Flag(av, names) == \E k \in 1..Len(av) : av[k] \in names

\* if (args.all) { ... }: t holds the three toggles
ApplyAll(t, all) ==
    IF all THEN [duplicates |-> TRUE, complexity |-> TRUE, functions |-> TRUE] ELSE t

\* a parser without the default
ApplyDefault_none(t) == t

\* "At least one analysis flag must be set"
ApplyDefault(t) ==
    IF ~t.duplicates /\ ~t.complexity /\ ~t.functions
    THEN [duplicates |-> TRUE, complexity |-> TRUE, functions |-> TRUE]
    ELSE t

\* the result is [exit |-> Null, config |-> Some(the record)] or, after
\* process.exit(n), [exit |-> Some(n), config |-> Null]
parseArgs(av) ==
    LET args == [ duplicates |-> Flag(av, {"-d", "--duplicates"}),
                  complexity |-> Flag(av, {"-c", "--complexity"}),
                  functions  |-> Flag(av, {"-f", "--functions"}) ]
        t == ApplyDefault(ApplyAll(args, Flag(av, {"-a", "--all"})))
        positional == SelectSeq(av, IsPositional)
    IN  IF Flag(av, {"-h", "--help"}) THEN [exit |-> Some(0), config |-> Null]
        ELSE IF positional = <<>> THEN [exit |-> Some(1), config |-> Null]
        ELSE [exit |-> Null,
              config |-> Some([ projectDir |-> positional[1],
                                outputPath |-> "analysis_report.html",
                                duplicates |-> t.duplicates,
                                complexity |-> t.complexity,
                                functions  |-> t.functions,
                                verbose    |-> Flag(av, {"-v", "--verbose"}) ])]

(***************************************************************************)
(* scanner.js: scanTypeScriptFiles                                         *)
(***************************************************************************)
\* A path is the rank of the file's absolute path in the sort order of
\* Array.prototype.sort: path 1 sorts before path 2.
RECURSIVE SortedSeq(_)
\* results.sort()
SortedSeq(S) ==
    IF S = {} THEN <<>>
    ELSE LET m == CHOOSE x \in S : \A y \in S : x <= y
         IN  <<m>> \o SortedSeq(S \ {m})

\* the walk collects the .ts/.tsx files of the tree that no pattern ignores:
\* the paths the disk of the model holds
scanTypeScriptFiles(d) == SortedSeq(DOMAIN d)

(***************************************************************************)
(* index.js: main                                                          *)
(***************************************************************************)
\* what the disk holds for a file fs.readFileSync cannot read
Unreadable == <<-1>>
\* err.message of the read's exception
ReadErrorMessage == "EACCES: permission denied"
\* the project directory that fs.existsSync does not find
MissingDir == "nodir"

\* const config = parseArgs(process.argv.slice(2))
ParseArgs ==
    /\ pc = "parseArgs"
    /\ LET r == parseArgs(argv) IN
         /\ config' = r.config
         /\ exitCode' = r.exit
         /\ pc' = IF r.exit # Null THEN "exited" ELSE "scan"
    /\ UNCHANGED <<argv, files, disk, i, results, warnings, duplicateGroups, summary,
                   reports, reads, raw, rawB, stripped, score, scoreB>>

\* a scan step that treats a project without files as a failure
Scan_failure ==
    /\ pc = "scan"
    /\ IF config[1].projectDir = MissingDir
       THEN /\ exitCode' = Some(1)
            /\ pc' = "exited"
            /\ UNCHANGED <<files, warnings>>
       ELSE LET found == scanTypeScriptFiles(disk) IN
            /\ files' = found
            /\ IF Len(found) = 0
               THEN /\ warnings' = Append(warnings, <<0, "No .ts or .tsx files found.">>)
                    /\ exitCode' = Some(1)
                    /\ pc' = "exited"
               ELSE /\ pc' = "analyze"
                    /\ UNCHANGED <<warnings, exitCode>>
    /\ UNCHANGED <<argv, config, disk, i, results, duplicateGroups, summary, reports,
                   reads, raw, rawB, stripped, score, scoreB>>

\* the validation of the project directory and the scan
Scan ==
    /\ pc = "scan"
    /\ IF config[1].projectDir = MissingDir
       THEN /\ exitCode' = Some(1)
            /\ pc' = "exited"
            /\ UNCHANGED <<files, warnings>>
       ELSE LET found == scanTypeScriptFiles(disk) IN
            /\ files' = found
            /\ IF Len(found) = 0
               THEN /\ warnings' = Append(warnings, <<0, "No .ts or .tsx files found.">>)
                    /\ exitCode' = Some(0)
                    /\ pc' = "exited"
               ELSE /\ pc' = "analyze"
                    /\ UNCHANGED <<warnings, exitCode>>
    /\ UNCHANGED <<argv, config, disk, i, results, duplicateGroups, summary, reports,
                   reads, raw, rawB, stripped, score, scoreB>>

\* a second read of the file, as of a hash computed from the file again
ReadFile_twice(rd, filePath) == [rd EXCEPT ![filePath] = @ + 2]

\* fs.readFileSync(filePath, 'utf-8'), the only read of analyzeFile: rd counts
\* the reads of each path
ReadFile(rd, filePath) == [rd EXCEPT ![filePath] = @ + 1]

\* the reads after generateReport, which renders the snapshot it is given
\* (summary, results, duplicate groups, columns) and reads no source file
generateReport(rd) == rd

\* the try block: results after analyzeFile returned for filePath
PushResult(rs, d, filePath, cfg) ==
    Append(rs, analyzeFile(d, filePath, [complexity |-> cfg.complexity,
                                         functions |-> cfg.functions]))

\* a catch block that swallows the error without a warning
SkipFile_silent(rs, ws, filePath) == [results |-> rs, warnings |-> ws]

\* the catch block: results and warnings after analyzeFile threw for filePath
SkipFile(rs, ws, filePath) ==
    [results |-> rs, warnings |-> Append(ws, <<filePath, ReadErrorMessage>>)]

\* one iteration of the analysis loop
AnalyzeNext ==
    /\ pc = "analyze"
    /\ i < Len(files)
    /\ LET filePath == files[i + 1] IN
         /\ reads' = ReadFile(reads, filePath)
         /\ IF disk[filePath] = Unreadable
            THEN /\ results' = SkipFile(results, warnings, filePath).results
                 /\ warnings' = SkipFile(results, warnings, filePath).warnings
            ELSE /\ results' = PushResult(results, disk, filePath, config[1])
                 /\ UNCHANGED warnings
    /\ i' = i + 1
    /\ UNCHANGED <<pc, argv, config, files, disk, duplicateGroups, summary, reports,
                   exitCode, raw, rawB, stripped, score, scoreB>>

\* a duplicate detection that does not wait for the end of the loop
DetectDuplicates_early ==
    /\ pc = "analyze"
    /\ duplicateGroups' = IF config[1].duplicates THEN findDuplicates(results) ELSE <<>>
    /\ pc' = "summary"
    /\ UNCHANGED <<argv, config, files, disk, i, results, warnings, summary, reports,
                   reads, exitCode, raw, rawB, stripped, score, scoreB>>

\* the loop ends; duplicate detection
DetectDuplicates ==
    /\ pc = "analyze"
    /\ i = Len(files)
    /\ duplicateGroups' = IF config[1].duplicates THEN findDuplicates(results) ELSE <<>>
    /\ pc' = "summary"
    /\ UNCHANGED <<argv, config, files, disk, i, results, warnings, summary, reports,
                   reads, exitCode, raw, rawB, stripped, score, scoreB>>

\* const summary = buildSummary(results, config)
BuildSummary ==
    /\ pc = "summary"
    /\ summary' = Some(buildSummary(results, config[1]))
    /\ pc' = "report"
    /\ UNCHANGED <<argv, config, files, disk, i, results, warnings, duplicateGroups,
                   reports, reads, exitCode, raw, rawB, stripped, score, scoreB>>

\* generateReport, mkdirSync and writeFileSync succeed
WriteReport ==
    /\ pc = "report"
    /\ reads' = generateReport(reads)
    /\ reports' = reports + 1
    /\ pc' = "done"
    /\ UNCHANGED <<argv, config, files, disk, i, results, warnings, duplicateGroups,
                   summary, exitCode, raw, rawB, stripped, score, scoreB>>

\* mkdirSync or writeFileSync throws: main().catch prints and exits with 1
WriteReportFails ==
    /\ pc = "report"
    /\ reads' = generateReport(reads)
    /\ exitCode' = Some(1)
    /\ pc' = "exited"
    /\ UNCHANGED <<argv, config, files, disk, i, results, warnings, duplicateGroups,
                   summary, reports, raw, rawB, stripped, score, scoreB>>

\* the steps of the text analysis of analyzeFile on the texts raw and rawB:
\* the normalized text, and the complexity of each
AnalyzeText ==
    /\ pc = "text"
    /\ stripped' = Some(stripCommentsAndStrings(raw))
    /\ score' = Some(calculateComplexity(stripCommentsAndStrings(raw)))
    /\ scoreB' = Some(calculateComplexity(stripCommentsAndStrings(rawB)))
    /\ pc' = "scored"
    /\ UNCHANGED <<argv, config, files, disk, i, results, warnings, duplicateGroups,
                   summary, reports, reads, exitCode, raw, rawB>>

(***************************************************************************)
(* Bounds and the inputs drawn from them                                   *)
(***************************************************************************)
MaxFiles     == 3    \* files of a project
MaxArgs      == 3    \* tokens of a command line
MaxHashes    == 2    \* distinct content hashes among given results
MaxFrags     == 3    \* fragments of a text (complexity baseline)
MaxIfFrags   == 4    \* fragments of a text (if-counting)
MaxOpFrags   == 3    \* fragments of a text (operators sharing the question mark)
MaxLitFrags  == 4    \* fragments of a text (comment and string content)
MaxBytes     == 2    \* bytes of a file (content hash)
MaxBaseFrags == 2    \* fragments of a text a decision point is inserted into
MaxImports   == 2    \* import statements of a file
MaxDecls     == 2    \* declarations of a file
MaxLines     == 2    \* lines of a file (line counts)
MaxResults   == 2    \* results given to the aggregation
MaxDupFiles  == 4    \* results given to the duplicate detection (group order)

Paths == 1..MaxFiles

\* all sequences over S of length at most n
SeqsUpTo(S, n) == UNION {[1..k -> S] : k \in 0..n}

RECURSIVE Flatten(_)
\* the text made of the fragments fs
Flatten(fs) == IF fs = <<>> THEN <<>> ELSE Head(fs) \o Flatten(Tail(fs))

TextsOver(F, n) == {Flatten(fs) : fs \in SeqsUpTo(F, n)}

F_if     == <<"i","f"," ","(">>
F_elseif == <<"e","l","s","e"," ","i","f"," ","(">>
F_a      == <<"a">>
F_sp     == <<" ">>
F_nl     == <<"\n">>
F_dq     == <<"\"">>
F_sq     == <<"'">>
F_bt     == <<BT>>
F_lc     == <<"/","/">>
F_bo     == <<"/","*">>
F_bc     == <<"*","/">>
F_nn     == <<"?","?">>
F_oc     == <<"?",".">>
F_q      == <<"?">>
F_and    == <<"&","&">>
F_or     == <<"|","|">>
F_tern   == <<"?"," ">>
F_semi   == <<";">>
F_for    == <<"f","o","r"," ","(">>
F_forof  == <<"f","o","r"," ","(","c","o","n","s","t"," ","x"," ","o","f"," ","x","s",")">>
F_while  == <<"w","h","i","l","e"," ","(">>
F_do     == <<"d","o"," ","{">>
F_case   == <<"c","a","s","e"," ">>
F_catch  == <<"c","a","t","c","h"," ","(">>

ScoreFrags == {F_if, F_a, F_sp, F_nl, F_dq, F_sq, F_bt, F_lc, F_bo, F_bc, F_nn, F_oc,
               F_and}
IfFrags    == {F_if, F_a, F_sp, F_nl, F_dq, F_lc}
OpFrags    == {F_a, F_sp, F_nn, F_oc, F_q, F_nl}
LitFrags   == {F_if, F_a, F_nl, F_dq, F_sq, F_bt, F_lc}
\* import statements, one of each shape IMPORT_REGEX names
\* import R from 'react'
S_react ==
    <<"i","m","p","o","r","t"," ","R"," ","f","r","o","m"," ","'","r","e","a","c","t","'">>
\* import R from 'React'
S_React ==
    <<"i","m","p","o","r","t"," ","R"," ","f","r","o","m"," ","'","R","e","a","c","t","'">>
\* import j from "react/jsx-runtime"
S_jsx ==
    <<"i","m","p","o","r","t"," ","j"," ","f","r","o","m"," ","\"","r","e","a","c","t","/",
      "j","s","x","-","r","u","n","t","i","m","e","\"">>
\* import {a} from "react-dom"
S_dom ==
    <<"i","m","p","o","r","t"," ","{","a","}"," ","f","r","o","m"," ","\"","r","e","a","c",
      "t","-","d","o","m","\"">>
\* import 'react-redux'
S_redux ==
    <<"i","m","p","o","r","t"," ","'","r","e","a","c","t","-","r","e","d","u","x","'">>
\* import * as r from 'react-router'
S_router ==
    <<"i","m","p","o","r","t"," ","*"," ","a","s"," ","r"," ","f","r","o","m"," ","'","r",
      "e","a","c","t","-","r","o","u","t","e","r","'">>
\* import type {T} from 'react-router-dom'
S_routerdom ==
    <<"i","m","p","o","r","t"," ","t","y","p","e"," ","{","T","}"," ","f","r","o","m"," ",
      "'","r","e","a","c","t","-","r","o","u","t","e","r","-","d","o","m","'">>
\* import a, {b} from './u'
S_u ==
    <<"i","m","p","o","r","t"," ","a",","," ","{","b","}"," ","f","r","o","m"," ","'",".",
      "/","u","'">>
\* import x from "ax"
S_ax ==
    <<"i","m","p","o","r","t"," ","x"," ","f","r","o","m"," ","\"","a","x","\"">>
\* import 'ax'
S_ax2 ==
    <<"i","m","p","o","r","t"," ","'","a","x","'">>
ImportStatements == {S_react, S_React, S_jsx, S_dom, S_redux, S_router,
                     S_routerdom, S_u, S_ax, S_ax2}

\* the file made of the statements ss, each ended by a semicolon and a newline
FileOf(ss) == Flatten([k \in 1..Len(ss) |-> ss[k] \o <<";", "\n">>])

Reverse(ss) == [k \in 1..Len(ss) |-> ss[Len(ss) + 1 - k]]

\* declarations of TypeScript, and bindings that declare no function
\* function f() {}
D_function ==
    <<"f","u","n","c","t","i","o","n"," ","f","(",")"," ","{","}">>
\* export default function g() {}
D_export ==
    <<"e","x","p","o","r","t"," ","d","e","f","a","u","l","t"," ","f","u","n","c","t","i",
      "o","n"," ","g","(",")"," ","{","}">>
\* const f = (a) => a
D_arrow ==
    <<"c","o","n","s","t"," ","f"," ","="," ","(","a",")"," ","=",">"," ","a">>
\* let g = async x => x
D_async ==
    <<"l","e","t"," ","g"," ","="," ","a","s","y","n","c"," ","x"," ","=",">"," ","x">>
\* class M {}
D_class ==
    <<"c","l","a","s","s"," ","M"," ","{","}">>
\* const x = 5
D_number ==
    <<"c","o","n","s","t"," ","x"," ","="," ","5">>
\* var y = f(a)
D_call ==
    <<"v","a","r"," ","y"," ","="," ","f","(","a",")">>
\* const h = (a): T => a
D_typed ==
    <<"c","o","n","s","t"," ","h"," ","="," ","(","a",")",":"," ","T"," ","=",">"," ","a">>
\* function $f() {}
D_dollar ==
    <<"f","u","n","c","t","i","o","n"," ","$","f","(",")"," ","{","}">>
Declarations == {D_function, D_export, D_arrow, D_async, D_class,
                 D_number, D_call, D_typed, D_dollar}

\* if (a) b
X_if == <<"i","f"," ","(","a",")"," ","b">>
\* statements with a decision point, a function and a dependency
MixedStatements == {X_if, D_function, S_ax}

\* lines of a file: blank ones, code, and the lines of comments
L_empty    == <<>>
L_blank    == <<" ", "\t">>
L_code     == <<" ", "a", ";">>
L_trailing == <<"a", ";", " ", "/", "/", " ", "c">>
L_line     == <<" ", "/", "/", " ", "c">>
L_open     == <<"/", "*", "*">>
L_star     == <<" ", "*", " ", "c">>
L_close    == <<" ", "*", "/">>
FileLines  == {L_empty, L_blank, L_code, L_trailing, L_line, L_open, L_star, L_close}

RECURSIVE JoinLines(_)
\* the lines ls with a newline between each two
JoinLines(ls) ==
    IF ls = <<>> THEN <<>>
    ELSE IF Len(ls) = 1 THEN ls[1]
    ELSE ls[1] \o <<"\n">> \o JoinLines(Tail(ls))

BaseFrags  == {F_if, F_a, F_sp, F_nl, F_semi}
\* one construct for each decision point of the README's table
DecisionPoints == {F_if, F_elseif, F_for, F_forof, F_while, F_do, F_case, F_catch,
                   F_nn, F_oc, F_and, F_or, F_tern}

\* no run of the driver in the pure-function specifications
Idle ==
    /\ argv = <<>> /\ config = Null /\ files = <<>> /\ disk = <<>> /\ i = 0
    /\ results = <<>> /\ warnings = <<>> /\ duplicateGroups = <<>> /\ summary = Null
    /\ reports = 0 /\ reads = <<>> /\ exitCode = Null

NoText ==
    /\ raw = <<>> /\ rawB = <<>> /\ stripped = Null /\ score = Null /\ scoreB = Null

(***************************************************************************)
(* The reference reading of a text, which the properties are stated with:  *)
(* which characters are content of a comment, of a quoted string or of a   *)
(* template literal.  The modes are code, line (after //), block (after    *)
(* slash-star), dq, sq and tpl (inside a string or template literal).      *)
(***************************************************************************)
TwoAt(s, p, a, b) == p + 1 <= Len(s) /\ s[p] = a /\ s[p + 1] = b

RECURSIVE Lex(_, _, _)
\* from position p in mode m: skel is the text without the content characters
\* (the delimiters stay), ok says that every string and block comment is
\* closed and that no quoted string holds a line terminator
Lex(s, p, m) ==
    IF p > Len(s) THEN [skel |-> <<>>, ok |-> m \in {"code", "line"}]
    ELSE IF m = "code" THEN
        IF TwoAt(s, p, "/", "/")
        THEN LET r == Lex(s, p + 2, "line") IN [r EXCEPT !.skel = <<"/","/">> \o @]
        ELSE IF TwoAt(s, p, "/", "*")
        THEN LET r == Lex(s, p + 2, "block") IN [r EXCEPT !.skel = <<"/","*">> \o @]
        ELSE LET r == Lex(s, p + 1, IF s[p] = "\"" THEN "dq"
                                    ELSE IF s[p] = "'" THEN "sq"
                                    ELSE IF s[p] = BT THEN "tpl" ELSE "code")
             IN  [r EXCEPT !.skel = <<s[p]>> \o @]
    ELSE IF m = "line" THEN
        IF s[p] \in LineTerminators
        THEN LET r == Lex(s, p + 1, "code") IN [r EXCEPT !.skel = <<s[p]>> \o @]
        ELSE Lex(s, p + 1, "line")
    ELSE IF m = "block" THEN
        IF TwoAt(s, p, "*", "/")
        THEN LET r == Lex(s, p + 2, "code") IN [r EXCEPT !.skel = <<"*","/">> \o @]
        ELSE Lex(s, p + 1, "block")
    ELSE \* dq, sq, tpl
        LET close == IF m = "dq" THEN "\"" ELSE IF m = "sq" THEN "'" ELSE BT IN
        IF s[p] = close
        THEN LET r == Lex(s, p + 1, "code") IN [r EXCEPT !.skel = <<s[p]>> \o @]
        ELSE LET r == Lex(s, p + 1, m)
             IN  [r EXCEPT !.ok = @ /\ (m = "tpl" \/ s[p] \notin LineTerminators)]

\* the text is lexically well formed
WellFormed(s) == Lex(s, 1, "code").ok
\* the text with the content of its comments and strings taken out
Skeleton(s) == Lex(s, 1, "code").skel

\* two texts that differ only in the content of comments and strings
SameCode(s, t) == WellFormed(s) /\ WellFormed(t) /\ Skeleton(s) = Skeleton(t)

(***************************************************************************)
(* Specifications                                                          *)
(***************************************************************************)
\* calculateComplexity(stripCommentsAndStrings(t)) for the texts t over ScoreFrags
InitScore ==
    /\ pc = "text" /\ Idle
    /\ raw \in TextsOver(ScoreFrags, MaxFrags)
    /\ rawB = raw
    /\ stripped = Null /\ score = Null /\ scoreB = Null

SpecScore == InitScore /\ [][AnalyzeText]_vars

\* the same for the texts over IfFrags
InitIf ==
    /\ pc = "text" /\ Idle
    /\ raw \in TextsOver(IfFrags, MaxIfFrags)
    /\ rawB = raw
    /\ stripped = Null /\ score = Null /\ scoreB = Null

SpecIf == InitIf /\ [][AnalyzeText]_vars

\* the same for the texts over OpFrags
InitOps ==
    /\ pc = "text" /\ Idle
    /\ raw \in TextsOver(OpFrags, MaxOpFrags)
    /\ rawB = raw
    /\ stripped = Null /\ score = Null /\ scoreB = Null

SpecOps == InitOps /\ [][AnalyzeText]_vars

\* two texts over LitFrags, the second the first with one fragment of the
\* content of a comment or string replaced
InitInvariance ==
    /\ pc = "text" /\ Idle
    /\ \E fs \in SeqsUpTo(LitFrags, MaxLitFrags) :
         /\ WellFormed(Flatten(fs))
         /\ raw = Flatten(fs)
         /\ \E k \in 1..Len(fs), g \in LitFrags :
              /\ SameCode(Flatten(fs), Flatten([fs EXCEPT ![k] = g]))
              /\ rawB = Flatten([fs EXCEPT ![k] = g])
    /\ stripped = Null /\ score = Null /\ scoreB = Null

SpecInvariance == InitInvariance /\ [][AnalyzeText]_vars

\* c put into the text of the fragments fs after its k-th fragment
InsertAt(fs, k, c) ==
    Flatten(SubSeq(fs, 1, k)) \o c \o Flatten(SubSeq(fs, k + 1, Len(fs)))

\* c starts a token of its own after the text before: a construct that
\* starts with a keyword does not continue an identifier
StartsToken(before, c) ==
    IF c[1] \in WordChars /\ Len(before) > 0
    THEN before[Len(before)] \notin WordChars
    ELSE TRUE

\* every fragment of fs is a token, or a run of tokens, of its own
TokenWise(fs) ==
    \A j \in 1..Len(fs) : StartsToken(Flatten(SubSeq(fs, 1, j - 1)), fs[j])

\* a text over BaseFrags, and the same text with one decision point inserted
\* between two of its tokens
InitInsert ==
    /\ pc = "text" /\ Idle
    /\ \E fs \in SeqsUpTo(BaseFrags, MaxBaseFrags) :
         \E k \in 0..Len(fs), c \in DecisionPoints :
           /\ TokenWise(fs)
           /\ StartsToken(Flatten(SubSeq(fs, 1, k)), c)
           /\ raw = Flatten(fs)
           /\ rawB = InsertAt(fs, k, c)
    /\ stripped = Null /\ score = Null /\ scoreB = Null

SpecInsert == InitInsert /\ [][AnalyzeText]_vars

\* two files of at most MaxImports import statements, the second with the
\* statements of the first in reverse order; only the duplicate analysis is
\* requested
InitDeps ==
    /\ pc = "analyze"
    /\ argv = <<"proj", "-d">>
    /\ config = Some([ projectDir |-> "proj", outputPath |-> "analysis_report.html",
                       duplicates |-> TRUE, complexity |-> FALSE, functions |-> FALSE,
                       verbose |-> FALSE ])
    /\ files = <<1, 2>>
    /\ \E ss \in SeqsUpTo(ImportStatements, MaxImports) :
         disk = <<Utf8Encode(FileOf(ss)), Utf8Encode(FileOf(Reverse(ss)))>>
    /\ i = 0 /\ results = <<>> /\ warnings = <<>> /\ duplicateGroups = <<>>
    /\ summary = Null /\ reports = 0 /\ reads = <<0, 0>>
    /\ exitCode = Null
    /\ NoText

SpecDeps == InitDeps /\ [][AnalyzeNext]_vars

\* one file of at most MaxDecls declarations; the function analysis is
\* requested
InitDecls ==
    /\ pc = "analyze"
    /\ argv = <<"proj", "-f">>
    /\ config = Some([ projectDir |-> "proj", outputPath |-> "analysis_report.html",
                       duplicates |-> FALSE, complexity |-> FALSE, functions |-> TRUE,
                       verbose |-> FALSE ])
    /\ files = <<1>>
    /\ \E ds \in SeqsUpTo(Declarations, MaxDecls) : disk = <<Utf8Encode(FileOf(ds))>>
    /\ i = 0 /\ results = <<>> /\ warnings = <<>> /\ duplicateGroups = <<>>
    /\ summary = Null /\ reports = 0 /\ reads = <<0>>
    /\ exitCode = Null
    /\ NoText

SpecDecls == InitDecls /\ [][AnalyzeNext]_vars

\* a record of the shape analyzeFile returns
MkResult(filePath, lines, functionNames, complexity, contentHash) ==
    [ filePath |-> filePath, totalLines |-> lines, codeLines |-> lines, lines |-> lines,
      contentHash |-> contentHash, functionCount |-> Len(functionNames),
      functionNames |-> functionNames, dependencies |-> <<>>,
      complexity |-> complexity ]

\* the configurations parseArgs returns for an existing project
Configs ==
    { [ projectDir |-> "proj", outputPath |-> "analysis_report.html",
        duplicates |-> d, complexity |-> c, functions |-> f, verbose |-> FALSE ] :
      d \in BOOLEAN, c \in BOOLEAN, f \in BOOLEAN } \
    { [ projectDir |-> "proj", outputPath |-> "analysis_report.html",
        duplicates |-> FALSE, complexity |-> FALSE, functions |-> FALSE,
        verbose |-> FALSE ] }

\* one file of at most MaxDecls statements, under each configuration
InitToggles ==
    /\ pc = "analyze"
    /\ argv = <<"proj">>
    /\ config \in {Some(c) : c \in Configs}
    /\ files = <<1>>
    /\ \E ss \in SeqsUpTo(MixedStatements, MaxDecls) : disk = <<Utf8Encode(FileOf(ss))>>
    /\ i = 0 /\ results = <<>> /\ warnings = <<>> /\ duplicateGroups = <<>>
    /\ summary = Null /\ reports = 0 /\ reads = <<0>>
    /\ exitCode = Null
    /\ NoText

SpecToggles == InitToggles /\ [][AnalyzeNext]_vars

\* one file of at most MaxLines lines, under each configuration's toggles
InitLines ==
    /\ pc = "analyze"
    /\ argv = <<"proj">>
    /\ config \in {Some(c) : c \in Configs}
    /\ files = <<1>>
    /\ \E ls \in SeqsUpTo(FileLines, MaxLines) : disk = <<Utf8Encode(JoinLines(ls))>>
    /\ i = 0 /\ results = <<>> /\ warnings = <<>> /\ duplicateGroups = <<>>
    /\ summary = Null /\ reports = 0 /\ reads = <<0>>
    /\ exitCode = Null
    /\ NoText

SpecLines == InitLines /\ [][AnalyzeNext]_vars

\* findDuplicates on results of distinct paths, in any order, over MaxHashes
\* content hashes: the run stands at the end of the analysis loop
InitDup ==
    /\ config \in {Some(c) : c \in Configs}
    /\ \E n \in 0..MaxFiles :
         \E ps \in [1..n -> Paths], hs \in [1..n -> 1..MaxHashes] :
           /\ \A a, b \in 1..n : a # b => ps[a] # ps[b]
           /\ results = [k \in 1..n |-> MkResult(ps[k], 1, <<>>, 0, <<hs[k]>>)]
           /\ files = SortedSeq({ps[k] : k \in 1..n})
           /\ i = n
           /\ disk = [q \in {ps[k] : k \in 1..n} |->
                       <<hs[CHOOSE k \in 1..n : ps[k] = q]>>]
           /\ reads = [q \in {ps[k] : k \in 1..n} |-> 1]
    /\ pc = "analyze" /\ argv = <<"proj">> /\ warnings = <<>>
    /\ duplicateGroups = <<>> /\ summary = Null /\ reports = 0 /\ exitCode = Null
    /\ NoText

SpecDup == InitDup /\ [][DetectDuplicates]_vars

\* the per-file values the summary is built from
LineValues     == {1, 10}
FunctionValues == {<<>>, <<<<"f">>, <<"g">>>>}
ComplexityValues == {1, 200, 500, 1000, 1500}

\* buildSummary on results whose disabled metrics are 0, as analyzeFile
\* leaves them: the run stands before the summary
InitSummary ==
    /\ config \in {Some(c) : c \in Configs}
    /\ \E n \in 0..MaxFiles :
         \E ls \in [1..n -> LineValues],
            fs \in [1..n -> IF config[1].functions THEN FunctionValues ELSE {<<>>}],
            cs \in [1..n -> IF config[1].complexity THEN ComplexityValues ELSE {0}] :
           /\ results = [k \in 1..n |-> MkResult(k, ls[k], fs[k], cs[k], <<k>>)]
           /\ files = [k \in 1..n |-> k]
           /\ i = n
           /\ disk = [q \in 1..n |-> <<q>>]
           /\ reads = [q \in 1..n |-> 1]
    /\ pc = "summary" /\ argv = <<"proj">> /\ warnings = <<>>
    /\ duplicateGroups = <<>> /\ summary = Null /\ reports = 0 /\ exitCode = Null
    /\ NoText

SpecSummary == InitSummary /\ [][BuildSummary]_vars

\* findDuplicates on at most MaxDupFiles results of distinct paths, in any
\* order, over MaxHashes content hashes, so that two groups can form; the
\* duplicate analysis is requested
InitOrder ==
    /\ config \in {Some(c) : c \in {d \in Configs : d.duplicates /\ d.complexity /\ ~d.functions}}
    /\ \E n \in 0..MaxDupFiles :
         \E ps \in [1..n -> 1..MaxDupFiles], hs \in [1..n -> 1..MaxHashes] :
           /\ \A a, b \in 1..n : a # b => ps[a] # ps[b]
           /\ results = [k \in 1..n |-> MkResult(ps[k], 1, <<>>, 1, <<hs[k]>>)]
           /\ files = SortedSeq({ps[k] : k \in 1..n})
           /\ i = n
           /\ disk = [q \in {ps[k] : k \in 1..n} |->
                       <<hs[CHOOSE k \in 1..n : ps[k] = q]>>]
           /\ reads = [q \in {ps[k] : k \in 1..n} |-> 1]
    /\ pc = "analyze" /\ argv = <<"proj", "-d", "-c">> /\ warnings = <<>>
    /\ duplicateGroups = <<>> /\ summary = Null /\ reports = 0 /\ exitCode = Null
    /\ NoText

SpecOrder == InitOrder /\ [][DetectDuplicates]_vars

\* the complexities of the results given to the aggregation
AggComplexities == {1, 500}

\* the duplicate detection and the summary on at most MaxResults results over
\* MaxHashes content hashes: the run stands at the end of the analysis loop
InitAggregate ==
    /\ config \in {Some(c) : c \in Configs}
    /\ \E n \in 0..MaxResults :
         \E ls \in [1..n -> LineValues], hs \in [1..n -> 1..MaxHashes],
            fs \in [1..n -> IF config[1].functions THEN FunctionValues ELSE {<<>>}],
            cs \in [1..n -> IF config[1].complexity THEN AggComplexities ELSE {0}] :
           /\ results = [k \in 1..n |-> MkResult(k, ls[k], fs[k], cs[k], <<hs[k]>>)]
           /\ files = [k \in 1..n |-> k]
           /\ i = n
           /\ disk = [q \in 1..n |-> <<hs[q]>>]
           /\ reads = [q \in 1..n |-> 1]
    /\ pc = "analyze" /\ argv = <<"proj">> /\ warnings = <<>>
    /\ duplicateGroups = <<>> /\ summary = Null /\ reports = 0 /\ exitCode = Null
    /\ NoText

SpecAggregate == InitAggregate /\ [][DetectDuplicates \/ BuildSummary]_vars

\* parseArgs on the command lines of at most MaxArgs tokens
ArgTokens == FlagTokens \cup {"proj"}

InitArgs ==
    /\ pc = "parseArgs"
    /\ argv \in SeqsUpTo(ArgTokens, MaxArgs)
    /\ config = Null /\ files = <<>> /\ disk = <<>> /\ i = 0 /\ results = <<>>
    /\ warnings = <<>> /\ duplicateGroups = <<>> /\ summary = Null /\ reports = 0
    /\ reads = <<>> /\ exitCode = Null
    /\ NoText

SpecArgs == InitArgs /\ [][ParseArgs]_vars

\* the bytes of the files of the model
ByteValues == {97, 98, 128, 169, 195, 255}

\* two files of at most MaxBytes bytes each, analyzed and grouped
InitHash ==
    /\ pc = "analyze"
    /\ argv = <<"proj">>
    /\ config = Some([ projectDir |-> "proj", outputPath |-> "analysis_report.html",
                       duplicates |-> TRUE, complexity |-> TRUE, functions |-> TRUE,
                       verbose |-> FALSE ])
    /\ files = <<1, 2>>
    /\ disk \in [{1, 2} -> SeqsUpTo(ByteValues, MaxBytes)]
    /\ i = 0 /\ results = <<>> /\ warnings = <<>> /\ duplicateGroups = <<>>
    /\ summary = Null /\ reports = 0 /\ reads = [q \in {1, 2} |-> 0]
    /\ exitCode = Null
    /\ NoText

SpecHash == InitHash /\ [][AnalyzeNext \/ DetectDuplicates]_vars

\* the contents of the files of a whole run: two texts, two byte sequences
\* that are no UTF-8, and a file that cannot be read
B_if == <<105, 102, 32, 40, 97, 41, 32, 123, 125>>
B_a  == <<97>>
FileContents == {B_if, B_a, <<128>>, <<255>>, Unreadable}

\* the command lines of a whole run
RunArgvs == { <<"proj">>, <<"proj", "-d">>, <<"-c", "proj", "-f">>, <<"nodir", "-a">>,
              <<"--help">>, <<"-d">> }

\* process start: a command line and a project tree
Init ==
    /\ pc = "parseArgs"
    /\ argv \in RunArgvs
    /\ \E S \in SUBSET Paths :
         /\ disk \in [S -> FileContents]
         /\ reads = [q \in S |-> 0]
    /\ config = Null /\ files = <<>> /\ i = 0 /\ results = <<>> /\ warnings = <<>>
    /\ duplicateGroups = <<>> /\ summary = Null /\ reports = 0 /\ exitCode = Null
    /\ NoText

Next ==
    \/ ParseArgs
    \/ Scan
    \/ AnalyzeNext
    \/ DetectDuplicates
    \/ BuildSummary
    \/ WriteReport
    \/ WriteReportFails

Spec == Init /\ [][Next]_vars

(***************************************************************************)
(* Properties                                                              *)
(***************************************************************************)
\* the paths of the results rs whose content hash is h
PathsWithHash(rs, h) ==
    {rs[k].filePath : k \in {j \in 1..Len(rs) : rs[j].contentHash = h}}

SeqToSet(sq) == {sq[k] : k \in 1..Len(sq)}

\* C1: findDuplicates partitions the paths by contentHash: every group is the
\* set of all paths of one hash held by two or more results, each path once;
\* no two groups have the same hash; every shared hash has its group; so a
\* path of a unique hash is in no group.
C1_DuplicatePartition ==
    (pc = "summary" /\ config[1].duplicates) =>
      LET g == duplicateGroups IN
      /\ \A k \in 1..Len(g) :
           /\ Cardinality(PathsWithHash(results, g[k].hash)) >= 2
           /\ SeqToSet(g[k].files) = PathsWithHash(results, g[k].hash)
           /\ Len(g[k].files) = Cardinality(PathsWithHash(results, g[k].hash))
      /\ \A j, k \in 1..Len(g) : j # k => g[j].hash # g[k].hash
      /\ \A r \in 1..Len(results) :
           Cardinality(PathsWithHash(results, results[r].contentHash)) >= 2
             => \E k \in 1..Len(g) : g[k].hash = results[r].contentHash

\* three results, two of one hash and one of another: one group of two
C1_Witness ==
    /\ pc = "summary" /\ config[1].duplicates
    /\ Len(results) = 3
    /\ Len(duplicateGroups) = 1
    /\ Len(duplicateGroups[1].files) = 2

\* C2: two analyzed files have equal contentHash if and only if their bytes
\* are equal.
C2_HashIffBytes ==
    \A a, b \in 1..Len(results) :
      (results[a].contentHash = results[b].contentHash)
        <=> (disk[results[a].filePath] = disk[results[b].filePath])

\* C3: with complexity analysis enabled the level of the total T is Low iff
\* T <= 500, Medium iff 500 < T <= 1500, High iff 1500 < T <= 3000 and
\* Very High iff T > 3000.
C3_Thresholds ==
    (summary # Null /\ config[1].complexity) =>
      LET T     == summary[1].totalComplexity[1]
          level == summary[1].complexityLevel[1]
      IN  /\ (level = "Low") <=> (T <= 500)
          /\ (level = "Medium") <=> (500 < T /\ T <= 1500)
          /\ (level = "High") <=> (1500 < T /\ T <= 3000)
          /\ (level = "Very High") <=> (T > 3000)

\* a total of exactly 3000 is rated High
C3_Witness ==
    /\ summary # Null /\ config[1].complexity
    /\ summary[1].totalComplexity = Some(3000)
    /\ summary[1].complexityLevel = Some("High")

RECURSIVE RefSum(_, _)
\* the sum of a field over the results, from the first on
RefSum(rs, field) == IF rs = <<>> THEN 0 ELSE Head(rs)[field] + RefSum(Tail(rs), field)

\* C4: totalLines is the sum of the line counts and totalFiles the number of
\* results; totalFunctions and totalComplexity are the sums when their toggle
\* is enabled and null when it is disabled; complexityLevel is null exactly
\* when totalComplexity is null.
C4_Totals ==
    summary # Null =>
      LET sm == summary[1]  cfg == config[1] IN
      /\ sm.totalLines = RefSum(results, "lines")
      /\ sm.totalFiles = Len(results)
      /\ sm.totalFunctions = IF cfg.functions THEN Some(RefSum(results, "functionCount"))
                             ELSE Null
      /\ sm.totalComplexity = IF cfg.complexity THEN Some(RefSum(results, "complexity"))
                              ELSE Null
      /\ (sm.complexityLevel = Null) <=> (sm.totalComplexity = Null)

\* a summary of two files with functions disabled and complexity enabled
C4_Witness ==
    /\ summary # Null
    /\ ~config[1].functions /\ config[1].complexity
    /\ Len(results) = 2
    /\ summary[1].totalFunctions = Null
    /\ summary[1].totalComplexity # Null
    /\ summary[1].totalLines = 11

IsReadable(filePath) == disk[filePath] # Unreadable
IsUnreadable(filePath) == disk[filePath] = Unreadable
ResultPaths == [k \in 1..Len(results) |-> results[k].filePath]
WarningFor(filePath) == <<filePath, ReadErrorMessage>>

\* C5: a file whose read fails is skipped with a warning naming the path and
\* the reason and does not abort the run: the results hold one record for
\* each readable path scanned so far, in scan order, and none for the others;
\* the loop runs to the end of the list; and after a scan that found files
\* the run leaves only at the report step.
C5_UnreadableSkipped ==
    /\ pc \in {"analyze", "summary", "report", "done"} =>
         LET done == SubSeq(files, 1, i)
             bad  == SelectSeq(done, IsUnreadable)
         IN  /\ ResultPaths = SelectSeq(done, IsReadable)
             /\ warnings = [k \in 1..Len(bad) |-> WarningFor(bad[k])]
    /\ pc \in {"summary", "report", "done"} => i = Len(files)
    /\ (pc = "exited" /\ files # <<>>) =>
         /\ summary # Null
         /\ ResultPaths = SelectSeq(files, IsReadable)

\* a finished run over three files, the second unreadable
C5_Witness ==
    /\ pc = "done" /\ reports = 1
    /\ Len(files) = 3
    /\ disk[files[2]] = Unreadable
    /\ ResultPaths = <<files[1], files[3]>>
    /\ warnings = <<WarningFor(files[2])>>

\* one of the names of an option is on the command line
Requested(names) == \E k \in 1..Len(argv) : argv[k] \in names

\* C6: parseArgs enables all three toggles when --all is given or none of the
\* three is requested, and otherwise exactly the requested ones; at least one
\* toggle is enabled in every configuration it returns.
C6_Toggles ==
    config # Null =>
      LET c   == config[1]
          d   == Requested({"-d", "--duplicates"})
          x   == Requested({"-c", "--complexity"})
          f   == Requested({"-f", "--functions"})
          all == Requested({"-a", "--all"})
      IN  /\ (all \/ (~d /\ ~x /\ ~f)) => (c.duplicates /\ c.complexity /\ c.functions)
          /\ (~all /\ (d \/ x \/ f)) =>
               (c.duplicates = d /\ c.complexity = x /\ c.functions = f)
          /\ c.duplicates \/ c.complexity \/ c.functions

\* only complexity is requested and only complexity is enabled
C6_Witness ==
    /\ config # Null
    /\ Requested({"-c", "--complexity"}) /\ ~Requested({"-a", "--all"})
    /\ config[1].complexity /\ ~config[1].duplicates /\ ~config[1].functions

\* no decision-point pattern matches the text
NoTokenMatches(text) ==
    \A k \in 1..Len(COMPLEXITY_TOKENS) : MatchAll(COMPLEXITY_TOKENS[k], text) = <<>>

IfCount(text) == Len(MatchAll(RE_if, text))
OtherCount(text) == CountTokens(Tail(COMPLEXITY_TOKENS), 1, text)

\* C8: a text with n occurrences of "if (" outside comments and strings and
\* no other decision point has complexity exactly 1 + n.
C8_IfCount ==
    (score # Null /\ WellFormed(raw) /\ OtherCount(Skeleton(raw)) = 0) =>
      score[1] = 1 + IfCount(Skeleton(raw))

\* the character after position p of s is a question mark or a dot
GluedAt(s, p) == p + 1 <= Len(s) /\ s[p + 1] \in {"?", "."}

RECURSIVE QuestionTokens(_, _)
\* the operators of s from position p that start with a question mark, as the
\* language's lexer reads them: nn of ??, oc of ?. and q single question
\* marks; glued of them are followed at once by a question mark or a dot
QuestionTokens(s, p) ==
    IF p > Len(s) THEN [nn |-> 0, oc |-> 0, q |-> 0, glued |-> 0]
    ELSE IF TwoAt(s, p, "?", "?")
    THEN [QuestionTokens(s, p + 2) EXCEPT !.nn = @ + 1,
            !.glued = @ + (IF GluedAt(s, p + 1) THEN 1 ELSE 0)]
    ELSE IF TwoAt(s, p, "?", ".")
    THEN [QuestionTokens(s, p + 2) EXCEPT !.oc = @ + 1,
            !.glued = @ + (IF GluedAt(s, p + 1) THEN 1 ELSE 0)]
    ELSE IF s[p] = "?"
    THEN [QuestionTokens(s, p + 1) EXCEPT !.q = @ + 1]
    ELSE QuestionTokens(s, p + 1)

\* C9: the ternary pattern does not count the operators ?? and ?. again:
\* in a text whose question marks all belong to those operators (none of
\* them written right against a further question mark or dot), each of them
\* raises the score by exactly 1.
C9_NoDoubleCount ==
    (score # Null /\ QuestionTokens(raw, 1).q = 0 /\ QuestionTokens(raw, 1).glued = 0) =>
      score[1] = 1 + QuestionTokens(raw, 1).nn + QuestionTokens(raw, 1).oc

\* C10: two texts that differ only in the content of comments, quoted
\* strings or template literals have the same complexity.
C10_ContentInvariant ==
    (score # Null /\ SameCode(raw, rawB)) => score = scoreB

\* C11: inserting one decision point of the README's table into code raises
\* the complexity by exactly 1.  Stated for the texts without the operator
\* ??, whose count is the subject of C9.
C11_EachAddsOne ==
    (score # Null /\ QuestionTokens(rawB, 1).nn = 0) => scoreB[1] = score[1] + 1

\* the text of a line between its first and its last quote character
QuotedPart(line) ==
    LET qs == {k \in 1..Len(line) : line[k] \in {"'", "\""}}
        first == CHOOSE k \in qs : \A j \in qs : k <= j
        last  == CHOOSE k \in qs : \A j \in qs : j <= k
    IN  SubSeq(line, first + 1, last - 1)

\* the module specifiers of the import statements of a file that holds one
\* import statement per line
ImportedSpecifiers(content) ==
    LET lines == Split(content, "\n")
    IN  {QuotedPart(lines[k]) : k \in {j \in 1..Len(lines) : lines[j] # <<>>}}

\* the framework-core packages
FrameworkCore ==
    { <<"r","e","a","c","t">>,
      <<"r","e","a","c","t","-","d","o","m">>,
      <<"r","e","a","c","t","-","r","e","d","u","x">>,
      <<"r","e","a","c","t","-","r","o","u","t","e","r">>,
      <<"r","e","a","c","t","-","r","o","u","t","e","r","-","d","o","m">> }

\* the decoded text of the file a result is of
ContentOf(result) == Utf8Decode(disk[result.filePath])

StrictlyAscending(xs) == \A k \in 1..(Len(xs) - 1) : StringLess(xs[k], xs[k + 1])

\* C13: the dependencies of a file are strictly ascending, so without a
\* repeated element, and two files with the same import statements in a
\* different order have the same dependencies.
C13_SortedUnique ==
    /\ \A k \in 1..Len(results) : StrictlyAscending(results[k].dependencies)
    /\ Len(results) = 2 => results[1].dependencies = results[2].dependencies

\* two files have been analyzed whose statements are in different orders,
\* where a specifier is imported twice or the statements are not in the order
\* of their specifiers
C13_Witness ==
    /\ Len(results) = 2
    /\ disk[1] # disk[2]
    /\ Len(results[1].dependencies) >= 1
    /\ \/ Len(results[1].dependencies) < Len(Split(ContentOf(results[1]), "\n")) - 1
       \/ Len(results[1].dependencies) >= 2

\* the names a declaration of the model introduces as a function or class
NamesOf(decl) ==
    IF decl \in {D_function, D_arrow} THEN {<<"f">>}
    ELSE IF decl \in {D_export, D_async} THEN {<<"g">>}
    ELSE IF decl = D_class THEN {<<"M">>}
    ELSE IF decl = D_typed THEN {<<"h">>}
    ELSE IF decl = D_dollar THEN {<<"$","f">>}
    ELSE {}

\* the names the declarations of a file introduce, for a file that holds one
\* declaration per line, each ended by a semicolon
DeclaredNames(content) ==
    LET lines == Split(content, "\n")
    IN  UNION {NamesOf(SubSeq(lines[k], 1, Len(lines[k]) - 1)) :
                 k \in {j \in 1..Len(lines) : lines[j] # <<>>}}

\* C14: with the function analysis enabled, functionNames holds, each once,
\* exactly the names the file's function declarations, arrow-function
\* bindings and class declarations introduce, and functionCount is their
\* number.
C14_DeclaredNames ==
    \A k \in 1..Len(results) :
      /\ SeqToSet(results[k].functionNames) = DeclaredNames(ContentOf(results[k]))
      /\ Cardinality(SeqToSet(results[k].functionNames)) = Len(results[k].functionNames)
      /\ results[k].functionCount = Len(results[k].functionNames)

\* C15: in a run, every scanned path the loop has reached has been read
\* exactly once and no other path has been read: a path is read once by
\* analyzeFile, and neither the duplicate detection nor the summary nor the
\* report reads it again, whichever analyses are enabled.
C15_ReadOnce ==
    \A k \in 1..Len(files) : reads[files[k]] = IF k <= i THEN 1 ELSE 0

\* a run over two or more files has written its report
C15_Witness ==
    /\ pc = "done"
    /\ Len(files) >= 2
    /\ \A k \in 1..Len(files) : reads[files[k]] = 1

\* the fields of a record that no toggle governs
Untoggled(r) ==
    [ contentHash |-> r.contentHash, totalLines |-> r.totalLines,
      codeLines |-> r.codeLines, dependencies |-> r.dependencies ]

\* C16: in a record of analyzeFile the complexity is 0 with the complexity
\* toggle off and at least 1 with it on, functionCount is 0 and
\* functionNames empty with the functions toggle off, and the content hash,
\* the line counts and the dependencies are the same under every setting of
\* the toggles.
C16_ToggledFields ==
    \A k \in 1..Len(results) :
      LET r == results[k] IN
        /\ r.complexity = 0 <=> ~config[1].complexity
        /\ config[1].complexity => r.complexity >= 1
        /\ ~config[1].functions => (r.functionCount = 0 /\ r.functionNames = <<>>)
        /\ \A c \in BOOLEAN, f \in BOOLEAN :
             Untoggled(analyzeFile(disk, r.filePath, [complexity |-> c, functions |-> f]))
               = Untoggled(r)
        /\ r.totalLines >= 1 /\ r.contentHash = Utf8Encode(ContentOf(r))

\* a file with a decision point and a dependency has been analyzed with the
\* complexity toggle off
C16_Witness ==
    /\ Len(results) = 1
    /\ ~config[1].complexity
    /\ results[1].complexity = 0
    /\ results[1].dependencies # <<>>
    /\ calculateComplexity(stripCommentsAndStrings(ContentOf(results[1]))) >= 2

\* the project directory exists and holds no .ts or .tsx file
EmptyProject ==
    config # Null /\ config[1].projectDir # MissingDir /\ DOMAIN disk = {}

\* C17: a run on an empty project ends after the scan with the warning and
\* exit status 0, without a report; and on zero results findDuplicates gives
\* no group and buildSummary gives totalFiles 0, totalLines 0 and 0 for each
\* enabled total.
C17_EmptyProject ==
    /\ (EmptyProject /\ pc # "scan") =>
         /\ pc = "exited"
         /\ exitCode = Some(0)
         /\ warnings = << <<0, "No .ts or .tsx files found.">> >>
         /\ reports = 0
    /\ (results = <<>> /\ pc \in {"summary", "report", "done"}) => duplicateGroups = <<>>
    /\ (results = <<>> /\ summary # Null) =>
         /\ summary[1].totalFiles = 0
         /\ summary[1].totalLines = 0
         /\ summary[1].totalFunctions = IF config[1].functions THEN Some(0) ELSE Null
         /\ summary[1].totalComplexity = IF config[1].complexity THEN Some(0) ELSE Null

\* the run on an empty project has ended
C17_Witness ==
    EmptyProject /\ pc = "exited" /\ exitCode = Some(0) /\ warnings # <<>>

RECURSIVE LinesOf(_, _)
\* the newline-separated lines of the text s, cur being the line so far
LinesOf(s, cur) ==
    IF s = <<>> THEN <<cur>>
    ELSE IF Head(s) = "\n" THEN <<cur>> \o LinesOf(Tail(s), <<>>)
    ELSE LinesOf(Tail(s), Append(cur, Head(s)))

\* the line without the white space before its first other character
LeftTrimmed(line) ==
    LET rest == {k \in 1..Len(line) : line[k] \notin SpaceChars}
    IN  IF rest = {} THEN <<>>
        ELSE SubSeq(line, CHOOSE k \in rest : \A j \in rest : k <= j, Len(line))

\* a line that is blank, starts a line comment, opens a block comment or
\* continues one
BlankOrComment(line) ==
    LET t == LeftTrimmed(line)
    IN  \/ t = <<>>
        \/ Len(t) >= 2 /\ SubSeq(t, 1, 2) \in {<<"/","/">>, <<"/","*">>}
        \/ t[1] = "*"

\* C18: codeLines is the number of lines that are neither blank nor comment
\* lines (line comment, opening line of a block comment, continuation line
\* of a block comment), so between 0 and totalLines, the number of
\* newline-separated lines of the text.
C18_CodeLines ==
    \A k \in 1..Len(results) :
      LET lines == LinesOf(ContentOf(results[k]), <<>>) IN
        /\ results[k].totalLines = Len(lines)
        /\ results[k].codeLines
             = Cardinality({j \in 1..Len(lines) : ~BlankOrComment(lines[j])})
        /\ 0 <= results[k].codeLines /\ results[k].codeLines <= results[k].totalLines

\* the permutations of 1..n
Perms(n) == {p \in [1..n -> 1..n] : \A a, b \in 1..n : a # b => p[a] # p[b]}

\* the results rs in the order p
Permute(rs, p) == [k \in 1..Len(rs) |-> rs[p[k]]]

\* the groups g as a set, each with the set of its member paths
GroupSet(g) == {[hash |-> g[k].hash, files |-> SeqToSet(g[k].files)] : k \in 1..Len(g)}

\* C19: the summary and the duplicate groups do not depend on the order of
\* the results: for every permutation of the results of the run,
\* buildSummary returns the summary of the run and findDuplicates the same
\* set of groups, each with the same member paths.
C19_OrderIndependent ==
    \A p \in Perms(Len(results)) :
      /\ summary # Null => buildSummary(Permute(results, p), config[1]) = summary[1]
      /\ (pc # "analyze" /\ config[1].duplicates) =>
           GroupSet(findDuplicates(Permute(results, p))) = GroupSet(duplicateGroups)

\* the aggregation has run on results that differ in every metric and share
\* a content hash
C19_Witness ==
    /\ summary # Null
    /\ config[1].duplicates /\ config[1].complexity /\ config[1].functions
    /\ Len(results) >= 2
    /\ results[1].lines # results[2].lines
    /\ results[1].complexity # results[2].complexity
    /\ results[1].functionCount # results[2].functionCount
    /\ Len(duplicateGroups) = 1

\* every scanned path has been analyzed to completion or skipped
AllSettled ==
    /\ i = Len(files)
    /\ \A k \in 1..Len(files) :
         (files[k] \in SeqToSet(ResultPaths)) # (WarningFor(files[k]) \in SeqToSet(warnings))

\* C20: the duplicate detection, the summary and the report come only after
\* every scanned path has been analyzed or skipped; the results never hold a
\* record of a path the loop has not passed; the summary is built from the
\* complete results; and the report is written at most once, after the
\* summary is built.
C20_AggregateAfterAnalysis ==
    /\ (pc \in {"summary", "report", "done"} \/ duplicateGroups # <<>>
          \/ summary # Null \/ reports > 0) => AllSettled
    /\ \A k \in 1..Len(results) : \E j \in 1..i : files[j] = results[k].filePath
    /\ summary # Null =>
         summary[1].totalFiles = Cardinality({k \in 1..Len(files) : IsReadable(files[k])})
    /\ reports <= 1
    /\ reports > 0 => (summary # Null /\ pc = "done")

\* a run over a readable and an unreadable file has found no duplicates,
\* built its summary and written its report
C20_Witness ==
    /\ pc = "done" /\ reports = 1 /\ summary # Null
    /\ Len(files) = 2 /\ Len(results) = 1 /\ Len(warnings) = 1
    /\ config[1].duplicates

\* the position of the first of the results rs with content hash h
FirstSeen(rs, h) ==
    CHOOSE k \in 1..Len(rs) :
      rs[k].contentHash = h /\ \A j \in 1..(k - 1) : rs[j].contentHash # h

RECURSIVE PathsInOrder(_, _)
\* the paths of the results rs with content hash h, in the order of rs
PathsInOrder(rs, h) ==
    IF rs = <<>> THEN <<>>
    ELSE (IF Head(rs).contentHash = h THEN <<Head(rs).filePath>> ELSE <<>>)
           \o PathsInOrder(Tail(rs), h)

\* C21: findDuplicates emits the groups in the order in which their hashes
\* are first seen in the input, and the paths of each group in input order.
C21_FirstSeenOrder ==
    (pc = "summary" /\ config[1].duplicates) =>
      LET g == duplicateGroups IN
      /\ \A a, b \in 1..Len(g) :
           a < b <=> FirstSeen(results, g[a].hash) < FirstSeen(results, g[b].hash)
      /\ \A a \in 1..Len(g) : g[a].files = PathsInOrder(results, g[a].hash)

\* two groups have formed, the first of the greater hash and with its paths
\* not in ascending order
C21_Witness ==
    /\ pc = "summary" /\ config[1].duplicates
    /\ Len(duplicateGroups) = 2
    /\ duplicateGroups[1].hash[1] > duplicateGroups[2].hash[1]
    /\ duplicateGroups[1].files[1] > duplicateGroups[1].files[2]

=============================================================================
